---- MODULE Spec2Model ----
(***************************************************************************)
(* A model of the retrieval-and-routing engine of the repository:          *)
(*   - PickleStorage (src/utils/pickle_storage.py): the four parallel      *)
(*     collections, their persisted blob, and the brute-force cosine       *)
(*     similarity search;                                                  *)
(*   - RAGTool (src/tools/rag_tool.py): ingestion, retrieval, clear;       *)
(*   - the message handler of src/orchestrateur.py and its branches.       *)
(*                                                                         *)
(* The specifications share the variables:                                 *)
(*   SpecStore  drives the storage API directly (store_vectors,            *)
(*              clear_knowledge_base);                                     *)
(*   SpecSearch applies similarity_search to every small store content;    *)
(*   Spec       drives the application: start-up ingestion, uploads and    *)
(*              conversation turns, one step per await point;              *)
(*   SpecConc   interleaves the handlers of concurrent conversations that  *)
(*              ingest and search, at their await points;                  *)
(*   SpecIngest adds restarts of the process to ingestions and uploads;    *)
(*   SpecSources applies the source attribution of a RAG answer to every   *)
(*              small store and disk content;                              *)
(*   SpecSession interleaves web requests and ends of conversations on the *)
(*              HTTP session the conversations share.                      *)
(***************************************************************************)
EXTENDS Integers, Sequences, FiniteSets, TLC

VARIABLES
    data,        \* PickleStorage.data: [ids, documents, embeddings, metadatas]
    blob,        \* the content of the pickle file on disk
    appended,    \* history variable: the records in the order they were appended
    searchOut,   \* outcome of the last direct similarity_search call
    pc,          \* position of the message handler (its current await point)
    turn,        \* inputs and trace of the turn being handled
    msgs,        \* messages sent to the user during the turn, in order
    netData,     \* search_data held by handle_internet_query between its awaits
    turnsDone,   \* number of turns that ended with an answer
    conv,        \* each concurrent conversation's handler (its await point
                 \* and its locals)
    session,     \* InternetSearchTool.session: None or an HTTP client
    clients      \* the HTTP clients created so far: "open" or "closed"

vars == <<data, blob, appended, searchOut, pc, turn, msgs, netData, turnsDone,
          conv, session, clients>>

turnVars  == <<pc, turn, msgs, netData, turnsDone>>

----------------------------------------------------------------------------
(* Bounds of the model.                                                    *)

MaxRecords == 3      \* records the store may hold
MaxBatch   == 2      \* records in one direct store_vectors call
MaxK       == 4      \* largest k of a direct similarity_search call
MaxTurns   == 2      \* turns counted by turnsDone

----------------------------------------------------------------------------
(* Generic helpers.                                                        *)

Min(a, b) == IF a <= b THEN a ELSE b
Max(a, b) == IF a >= b THEN a ELSE b

SeqsUpTo(S, n) == UNION {[1..m -> S] : m \in 0..n}

\* Python's  s[:k]  for any integer k (a negative k counts from the end).
PySlicePrefix(s, k) ==
    IF k >= 0 THEN SubSeq(s, 1, Min(k, Len(s)))
              ELSE SubSeq(s, 1, Max(Len(s) + k, 0))

----------------------------------------------------------------------------
(* PickleStorage: the persisted collections.                               *)

EmptyData == [ids |-> <<>>, documents |-> <<>>, embeddings |-> <<>>, metadatas |-> <<>>]

\* The file on disk: absent, unreadable (a truncated pickle), or a dump of data.
BlobAbsent  == [kind |-> "absent"]
BlobCorrupt == [kind |-> "corrupt"]
BlobOf(d)   == [kind |-> "pickle", data |-> d]

\* _load_or_initialize: a readable file gives its content; a missing file, or
\* one pickle cannot read (EOFError, UnpicklingError), gives the empty structure.
LoadOrInitialize(b) ==
    IF b.kind = "pickle" THEN b.data ELSE EmptyData

\* Outcomes of  open(filename, 'wb'); pickle.dump(data, file) :
\*   "ok"         the dump completes;
\*   "open_fail"  open raises, the file is untouched;
\*   "dump_fail"  open truncated the file and the dump did not complete.
WriteOutcomes == {"ok", "open_fail", "dump_fail"}

WriteBlob(b, d, wr) ==
    CASE wr = "ok"        -> BlobOf(d)
      [] wr = "open_fail" -> b
      [] wr = "dump_fail" -> BlobCorrupt

\* Faulty variant of the four extends: metadatas is not extended.
ExtendDataDroppingMetadata(d, ids, embeddings, metadatas, documents) ==
    [ids        |-> d.ids \o ids,
     documents  |-> d.documents \o documents,
     embeddings |-> d.embeddings \o embeddings,
     metadatas  |-> d.metadatas]

\* Faulty variant of the four extends: a batch that brings an id the store
\* already holds is not appended.
ExtendDataSkippingKnownIds(d, ids, embeddings, metadatas, documents) ==
    IF \E i \in 1..Len(ids), j \in 1..Len(d.ids) : ids[i] = d.ids[j]
    THEN d
    ELSE [ids        |-> d.ids \o ids,
          documents  |-> d.documents \o documents,
          embeddings |-> d.embeddings \o embeddings,
          metadatas  |-> d.metadatas \o metadatas]

\* store_vectors, lines 34-37: the four extends.
ExtendData(d, ids, embeddings, metadatas, documents) ==
    [ids        |-> d.ids \o ids,
     documents  |-> d.documents \o documents,
     embeddings |-> d.embeddings \o embeddings,
     metadatas  |-> d.metadatas \o metadatas]

\* store_vectors: extend in memory, then write the whole store to the file.
\* The result carries the new memory, the new file and whether it raised.
StoreVectors(d, b, ids, embeddings, metadatas, documents, wr) ==
    LET nd == ExtendData(d, ids, embeddings, metadatas, documents)
    IN  [data |-> nd, blob |-> WriteBlob(b, nd, wr), raised |-> wr # "ok"]

\* clear_knowledge_base: reset memory, then write the empty store; any
\* exception is caught and reported as False.
ClearedData == EmptyData

ClearKnowledgeBase(d, b, wr) ==
    [data |-> ClearedData, blob |-> WriteBlob(b, ClearedData, wr), ok |-> wr = "ok"]

\* A record as its four fields; the metadata process_documents builds
\* (chunk_index holds the chunk's "id" field, which is the file's id).
Meta(name, path, stem) == [file_name |-> name, file_path |-> path, chunk_index |-> stem]

\* The record held at index i of the four collections.
RecordAt(d, i) ==
    [id |-> d.ids[i], document |-> d.documents[i],
     embedding |-> d.embeddings[i], metadata |-> d.metadatas[i]]

\* The four equal-length sequences a batch of records is passed as.
IdsOf(batch)        == [i \in 1..Len(batch) |-> batch[i].id]
DocumentsOf(batch)  == [i \in 1..Len(batch) |-> batch[i].document]
EmbeddingsOf(batch) == [i \in 1..Len(batch) |-> batch[i].embedding]
MetadatasOf(batch)  == [i \in 1..Len(batch) |-> batch[i].metadata]

StoreBatch(d, b, batch, wr) ==
    StoreVectors(d, b, IdsOf(batch), EmbeddingsOf(batch), MetadatasOf(batch),
                 DocumentsOf(batch), wr)

----------------------------------------------------------------------------
(* PickleStorage: cosine similarity and the ranked search.                 *)
(* Embeddings are vectors of small integers.  A similarity                 *)
(* dot / (norm1 * norm2) is kept exactly as the pair                       *)
(* [num |-> dot, den |-> norm1^2 * norm2^2], standing for num / sqrt(den). *)

RECURSIVE DotFrom(_, _, _)
DotFrom(v, w, i) == IF i > Len(v) THEN 0 ELSE v[i] * w[i] + DotFrom(v, w, i + 1)

Dot(v, w) == DotFrom(v, w, 1)

SqNorm(v) == Dot(v, v)

\* Faulty variant: a query shorter than a stored embedding is accepted and
\* compared on its own components.
ShapesAgreeWhenQueryShorter(v, w) == Len(v) <= Len(w)

\* np.dot raises ValueError on vectors of different length.
ShapesAgree(v, w) == Len(v) = Len(w)

\* _cosine_similarity (for vectors of equal length).
CosineSimilarity(v, w) ==
    IF SqNorm(v) = 0 \/ SqNorm(w) = 0
    THEN [num |-> 0, den |-> 1]
    ELSE [num |-> Dot(v, w), den |-> SqNorm(v) * SqNorm(w)]

\* s >= t  and  s = t  on similarities, by signs and cross-multiplied squares.
SimGE(s, t) ==
    CASE s.num >= 0 /\ t.num < 0  -> TRUE
      [] s.num < 0  /\ t.num >= 0 -> FALSE
      [] s.num >= 0 /\ t.num >= 0 -> s.num * s.num * t.den >= t.num * t.num * s.den
      [] OTHER                    -> s.num * s.num * t.den <= t.num * t.num * s.den

SimEQ(s, t) == SimGE(s, t) /\ SimGE(t, s)

\* Faulty variant of the sort step: an item goes before the items of equal
\* similarity (an unstable sort).
InsertDescTiesFirst(sorted, x) ==
    LET before == {j \in 1..Len(sorted) : ~SimGE(x.sim, sorted[j].sim)}
        n      == Cardinality(before)
    IN  SubSeq(sorted, 1, n) \o <<x>> \o SubSeq(sorted, n + 1, Len(sorted))

\* Faulty variant of the sort step: increasing similarity (reverse=True lost).
InsertAscending(sorted, x) ==
    LET before == {j \in 1..Len(sorted) : SimGE(x.sim, sorted[j].sim)}
        n      == Cardinality(before)
    IN  SubSeq(sorted, 1, n) \o <<x>> \o SubSeq(sorted, n + 1, Len(sorted))

\* One step of  similarities.sort(key=..., reverse=True) : the sort is stable,
\* so an item goes after every item whose similarity is >= its own.
InsertDesc(sorted, x) ==
    LET before == {j \in 1..Len(sorted) : SimGE(sorted[j].sim, x.sim)}
        n      == Cardinality(before)
    IN  SubSeq(sorted, 1, n) \o <<x>> \o SubSeq(sorted, n + 1, Len(sorted))

RECURSIVE SortDescFrom(_, _, _)
SortDescFrom(items, i, acc) ==
    IF i > Len(items) THEN acc
    ELSE SortDescFrom(items, i + 1, InsertDesc(acc, items[i]))

SortDesc(items) == SortDescFrom(items, 1, <<>>)

\* Lines 68-71: the (index, similarity) pairs in storage order.
Similarities(d, q) ==
    [i \in 1..Len(d.embeddings) |->
        [idx |-> i, sim |-> CosineSimilarity(q, d.embeddings[i])]]

\* Lines 74-75: sort, then take  similarities[:k].
TopK(d, q, k) == PySlicePrefix(SortDesc(Similarities(d, q)), k)

\* Lines 78-84: the result dictionaries; distance is 1 - similarity.
ResultsOf(d, top) ==
    [j \in 1..Len(top) |->
        [document |-> d.documents[top[j].idx],
         metadata |-> d.metadatas[top[j].idx],
         distance |-> [oneMinus |-> top[j].sim]]]

\* similarity_search: [] on an empty store; ValueError from np.dot when some
\* stored embedding has another length than the query.
SimilaritySearch(d, q, k) ==
    IF Len(d.embeddings) = 0
    THEN [status |-> "ok", top |-> <<>>, results |-> <<>>]
    ELSE IF \E i \in 1..Len(d.embeddings) : ~ShapesAgree(q, d.embeddings[i])
    THEN [status |-> "error", top |-> <<>>, results |-> <<>>]
    ELSE [status |-> "ok", top |-> TopK(d, q, k),
          results |-> ResultsOf(d, TopK(d, q, k))]

----------------------------------------------------------------------------
(* RAGTool: ingestion (process_documents) and statistics.                  *)

\* A source document as pipeline_parser sees it: file name, stem (the 'id'),
\* path and the chunk texts the parser yields for it.
File(name, stem, path, chunks) ==
    [name |-> name, stem |-> stem, path |-> path, chunks |-> chunks]

\* The supported files of the docs/ directory (os.listdir("docs"), line 31).
DocsFiles == << File("a.pdf", "a", "docs/a.pdf", <<"c1", "c2">>) >>

\* Files a user may upload; process_uploaded_files saves them under
\* temp_uploads/ with their own name.
UploadableFiles ==
    { File("a.pdf", "a", "temp_uploads/a.pdf", <<"c3">>),
      File("b.docx", "b", "temp_uploads/b.docx", <<"c4">>) }

\* The embedding capability, embed(text) -> vector: deterministic, of fixed
\* dimension.
Embed(text) ==
    CASE text = "c1" -> <<1, 0>>
      [] text = "c2" -> <<2, 0>>
      [] text = "c3" -> <<0, 1>>
      [] text = "c4" -> <<1, 1>>
      [] OTHER       -> <<0, 0>>

\* What can happen to one document inside the loop of process_documents:
\*   "ok"          parsed, embedded, stored and written;
\*   "parse_fail"  pipeline_parser raises;
\*   "no_chunks"   pipeline_parser returns no chunk;
\*   "embed_fail"  embed raises on some chunk;
\*   "open_fail", "dump_fail"  store_vectors raises while writing the file.
DocOutcomes == {"ok", "parse_fail", "no_chunks", "embed_fail", "open_fail", "dump_fail"}

\* Lines 92-109: the records built for the chunks of one file.
ChunkRecords(f) ==
    [i \in 1..Len(f.chunks) |->
        [id        |-> <<f.stem, i - 1>>,
         document  |-> f.chunks[i],
         embedding |-> Embed(f.chunks[i]),
         metadata  |-> Meta(f.name, f.path, f.stem)]]

\* One iteration of the loop of process_documents (lines 65-126) on state
\* st = [data, blob, count, added].
ProcessOne(st, f, outcome) ==
    IF outcome \in {"parse_fail", "no_chunks", "embed_fail"}
    THEN st
    ELSE LET wr == IF outcome = "ok" THEN "ok" ELSE outcome
             r  == StoreBatch(st.data, st.blob, ChunkRecords(f), wr)
         IN  [data  |-> r.data,
              blob  |-> r.blob,
              count |-> IF r.raised THEN st.count ELSE st.count + 1,
              added |-> st.added \o ChunkRecords(f)]

\* Faulty variant of the loop: the first failing document ends the batch.
RECURSIVE ProcessFromStoppingAtFailure(_, _, _, _)
ProcessFromStoppingAtFailure(st, files, outcomes, i) ==
    IF i > Len(files) \/ outcomes[i] # "ok" THEN st
    ELSE ProcessFromStoppingAtFailure(ProcessOne(st, files[i], outcomes[i]),
                                      files, outcomes, i + 1)

RECURSIVE ProcessFrom(_, _, _, _)
ProcessFrom(st, files, outcomes, i) ==
    IF i > Len(files) THEN st
    ELSE ProcessFrom(ProcessOne(st, files[i], outcomes[i]), files, outcomes, i + 1)

\* process_documents(file_paths): the final memory and file, the records put
\* in memory, and the returned  processed_count > 0.
ProcessDocuments(d, b, files, outcomes) ==
    LET st == ProcessFrom([data |-> d, blob |-> b, count |-> 0, added |-> <<>>],
                          files, outcomes, 1)
    IN  [data |-> st.data, blob |-> st.blob, added |-> st.added,
         success |-> Len(files) > 0 /\ st.count > 0]

\* get_knowledge_base_stats: the number of documents, and per file name the
\* path of its first record and its number of chunks.
FileNamesIn(d) == {d.metadatas[i].file_name : i \in 1..Len(d.metadatas)}

FirstIndexOf(d, name) ==
    CHOOSE i \in 1..Len(d.metadatas) :
        /\ d.metadatas[i].file_name = name
        /\ \A j \in 1..(i - 1) : d.metadatas[j].file_name # name

GetKnowledgeBaseStats(d) ==
    [total_documents  |-> Len(d.documents),
     total_embeddings |-> Len(d.embeddings),
     files |-> [name \in FileNamesIn(d) |->
                  [path |-> d.metadatas[FirstIndexOf(d, name)].file_path,
                   chunk_count |-> Cardinality({i \in 1..Len(d.metadatas) :
                                        d.metadatas[i].file_name = name})]]]

\* RAGTool.__init__, lines 31-40: the docs/ files whose path is not the
\* recorded path of a file of the store.
AlreadyProcessed(d) ==
    LET stats == GetKnowledgeBaseStats(d)
    IN  {stats.files[name].path : name \in DOMAIN stats.files}

DocumentPaths(d) ==
    LET fresh(f) == f.path \notin AlreadyProcessed(d)
    IN  SelectSeq(DocsFiles, fresh)

----------------------------------------------------------------------------
(* RAGTool: query_with_context.                                            *)

\* An optional argument: absent (Python's None default) or given.
Absent     == [given |-> FALSE]
Given(v)   == [given |-> TRUE, value |-> v]

\* query_with_context(query, k, attachments, system_prompt, chat_history):
\* the context is built by iterating over attachments (TypeError when it is
\* None); the messages are the chat history, if any, then the system prompt
\* and the user prompt.
QueryWithContext(attachments, chat_history) ==
    IF ~attachments.given
    THEN [raised |-> TRUE, messages |-> <<>>]
    ELSE [raised |-> FALSE,
          messages |-> (IF chat_history.given THEN chat_history.value ELSE <<>>)
                       \o <<"system", "user">>]

\* The call of handle_rag_query, line 42: query_with_context(query, k=5).
RagAttachmentsArg == Absent
RagChatHistoryArg == Absent

\* The source files the model knows, and the files on disk while no session
\* has ended: docs/ is never modified, and uploads are kept in temp_uploads/.
KnownPaths ==
    {DocsFiles[i].path : i \in 1..Len(DocsFiles)}
        \cup {f.path : f \in UploadableFiles} \cup {"docs/b.docx"}

\* os.path.exists(path), for the files present on disk.
FileOnDisk(disk, path) == path \in disk

\* os.path.join(os.getcwd(), "temp_uploads", file_name), line 74.
TempPathOf(name) ==
    CASE name = "a.pdf"  -> "temp_uploads/a.pdf"
      [] name = "b.docx" -> "temp_uploads/b.docx"
      [] OTHER           -> "temp_uploads/other"

\* Lines 44-79: unique_files maps each file name of the results to the path
\* of the last result with that name; a name gives one element, with that
\* path when the file exists, else with the path of the same name in
\* temp_uploads/ when that one exists.
SourceElements(results, disk) ==
    LET names == {results[j].metadata.file_name : j \in 1..Len(results)}
        lastOf(name) == CHOOSE j \in 1..Len(results) :
                            /\ results[j].metadata.file_name = name
                            /\ \A l \in (j + 1)..Len(results) :
                                   results[l].metadata.file_name # name
        pathOf(name) == results[lastOf(name)].metadata.file_path
    IN  { [name |-> name, path |-> pathOf(name)] :
            name \in {x \in names : FileOnDisk(disk, pathOf(x))} }
        \cup
        { [name |-> name, path |-> TempPathOf(name)] :
            name \in {x \in names : /\ ~FileOnDisk(disk, pathOf(x))
                                     /\ FileOnDisk(disk, TempPathOf(x))} }

----------------------------------------------------------------------------
(* InternetSearchTool.                                                     *)

RagK            == 5      \* k of the searches of handle_rag_query
NumResults      == 5      \* num_results of handle_internet_query
NumExtract      == 3      \* num_extract of handle_internet_query
SourcesListed   == 3      \* sources listed under an Internet answer
MinContentChars == 50     \* content length handle_wikipedia_scrap requires
MaxChars        == 5000   \* max_chars of extract_content
ContextChars    == 2000   \* characters of a page put in the summary's context

\* What the search engine may answer: the request fails (search_duckduckgo
\* catches it and returns []), or a ranked list of result urls.
SearchOutcomes ==
    { [failed |-> TRUE,  results |-> <<>>],
      [failed |-> FALSE, results |-> <<>>],
      [failed |-> FALSE, results |-> <<"u1">>],
      [failed |-> FALSE, results |-> <<"u2", "u1", "u3", "u4">>] }

\* search(query, num_results): at most num_results results, [] on failure.
Search(so, num_results) ==
    IF so.failed THEN <<>> ELSE PySlicePrefix(so.results, num_results)

\* What extract_content may return: a page text of some length, or, when the
\* fetch or the parse fails, the text "Could not extract content: <error>"
\* (whose length depends on the error) with 'length' 0.
ExtractOutcomes ==
    { [failed |-> FALSE, chars |-> 0],
      [failed |-> FALSE, chars |-> 50],
      [failed |-> FALSE, chars |-> 51],
      [failed |-> TRUE,  chars |-> 40],
      [failed |-> TRUE,  chars |-> 80] }

\* extract_content(url, max_chars): the page text is cut to max_chars, the
\* error text is not.
ExtractContent(eo, max_chars) ==
    LET kept == IF eo.failed THEN eo.chars ELSE Min(eo.chars, max_chars)
    IN  [content_chars |-> kept,
         length |-> IF eo.failed THEN 0 ELSE kept,
         title_error |-> eo.failed]

\* What the pages behind the result urls may give when they are fetched.
Webs ==
    { [u \in {"u1", "u2", "u3", "u4"} |->
          CASE u = "u1" -> [failed |-> FALSE, chars |-> 6000]
            [] u = "u2" -> [failed |-> TRUE,  chars |-> 80]
            [] u = "u3" -> [failed |-> FALSE, chars |-> 51]
            [] u = "u4" -> [failed |-> FALSE, chars |-> 3000]],
      [u \in {"u1", "u2", "u3", "u4"} |->
          CASE u = "u1" -> [failed |-> FALSE, chars |-> 1500]
            [] u = "u2" -> [failed |-> FALSE, chars |-> 2001]
            [] u = "u3" -> [failed |-> TRUE,  chars |-> 40]
            [] u = "u4" -> [failed |-> FALSE, chars |-> 0]] }

\* Faulty variant: an empty result list is not reported as an error.
SearchAndExtractWithoutError(so, web, num_results, num_extract) ==
    LET found == Search(so, num_results)
        first == PySlicePrefix(found, num_extract)
    IN  [error |-> FALSE, search_results |-> found,
         extracted_content |->
             [i \in 1..Len(first) |->
                 [url |-> first[i], search_rank |-> i,
                  content |-> ExtractContent(web[first[i]], MaxChars)]]]

\* Faulty variant: every result is extracted, num_extract is ignored.
SearchAndExtractEveryResult(so, web, num_results, num_extract) ==
    LET found == Search(so, num_results)
    IN  IF Len(found) = 0
        THEN [error |-> TRUE, search_results |-> <<>>, extracted_content |-> <<>>]
        ELSE [error |-> FALSE, search_results |-> found,
              extracted_content |->
                  [i \in 1..Len(found) |->
                      [url |-> found[i], search_rank |-> i,
                       content |-> ExtractContent(web[found[i]], MaxChars)]]]

\* search_and_extract: no result gives the 'error' dictionary; otherwise the
\* first num_extract results are extracted, in rank order, each with the
\* default max_chars.
SearchAndExtract(so, web, num_results, num_extract) ==
    LET found == Search(so, num_results)
        first == PySlicePrefix(found, num_extract)
    IN  IF Len(found) = 0
        THEN [error |-> TRUE, search_results |-> <<>>, extracted_content |-> <<>>]
        ELSE [error |-> FALSE, search_results |-> found,
              extracted_content |->
                  [i \in 1..Len(first) |->
                      [url |-> first[i], search_rank |-> i,
                       content |-> ExtractContent(web[first[i]], MaxChars)]]]

\* search_and_summarize, lines 313-322: the context, one part per extracted
\* page, numbered in order, with content[:2000].
ContextOf(extracted_content) ==
    [i \in 1..Len(extracted_content) |->
        [source |-> i,
         url    |-> extracted_content[i].url,
         body   |-> Min(extracted_content[i].content.content_chars, ContextChars)]]

\* search_and_summarize: its own search_and_extract, then either the error
\* text or one chat call on the context; an exception of the chat call is
\* not caught.
SearchAndSummarize(so, web, num_results, num_extract, chatOk) ==
    LET d == SearchAndExtract(so, web, num_results, num_extract)
    IN  IF d.error
        THEN [data |-> d, chat_calls |-> 0, context |-> <<>>,
              returned |-> "error_text"]
        ELSE [data |-> d, chat_calls |-> 1,
              context |-> ContextOf(d.extracted_content),
              returned |-> IF chatOk THEN "response" ELSE "raised"]

\* Faulty variant: a content of 50 characters is accepted.
ContentUsableFromFifty(content) ==
    content.content_chars > 0 /\ content.content_chars >= MinContentChars

\* handle_wikipedia_scrap, line 135.
ContentUsable(content) ==
    content.content_chars > 0 /\ content.content_chars > MinContentChars

----------------------------------------------------------------------------
(* The message handler: recognising a Wikipedia URL, classifying.          *)

\* A host name as a sequence of tokens: runs of letters and digits, "." and
\* "-".  <<"evil", "wikipedia", ".", "org">> is the host evilwikipedia.org.
SampleHosts ==
    { <<"fr", ".", "wikipedia", ".", "org">>,
      <<"wikipedia", ".", "org">>,
      <<"evil", "wikipedia", ".", "org">>,
      <<"example", ".", "com">> }

NoHost == <<>>

\* The tokens the class [a-zA-Z0-9.-] accepts.
HostClassTokens == {"fr", "evil", "example", "com", "wikipedia", "org", ".", "-"}

\* Line 379:  https?://[a-zA-Z0-9.-]*\.?wikipedia\.org/[^\s]*  on the host of
\* a URL: any run of class characters, an optional dot, then wikipedia.org.
MatchesWikipediaPattern(host) ==
    \E n \in 0..Len(host) :
        /\ \A i \in 1..n : host[i] \in HostClassTokens
        /\ SubSeq(host, n + 1, Len(host)) \in
               { <<".", "wikipedia", ".", "org">>, <<"wikipedia", ".", "org">> }

\* The queries: with no URL, or with one URL on some host.
Queries == {[url |-> h] : h \in SampleHosts \cup {NoHost}}

\* Lines 380-382: the first URL the pattern finds in the query, if any.
WikipediaUrls(q) ==
    IF q.url # NoHost /\ MatchesWikipediaPattern(q.url) THEN <<q.url>> ELSE <<>>

\* Responses of the classifying chat call, as sequences of words.
SampleResponses ==
    { <<"RAG">>, <<"<think>", "</think>", "rag">>, <<"INTERNET">>,
      <<"storage">>, <<"LLM">>, <<"SCRAPING">>, <<>> }

\* Line 401: the think delimiters are removed.
IsThinkTag(w) == w \in {"<think>", "</think>"}

Cleaned(response) ==
    LET keep(w) == ~IsThinkTag(w) IN SelectSeq(response, keep)

\* str.upper on the words used.
Upper(w) ==
    CASE w = "rag"      -> "RAG"
      [] w = "internet" -> "INTERNET"
      [] w = "storage"  -> "STORAGE"
      [] OTHER          -> w

\* "RAG" in s / "INTERNET" in s, for an upper-cased word s.
HasSubstring(s, sub) ==
    CASE sub = "RAG"      -> s \in {"RAG", "STORAGE"}
      [] sub = "INTERNET" -> s = "INTERNET"
      [] OTHER            -> FALSE

InUpper(sub, response) ==
    \E i \in 1..Len(response) : HasSubstring(Upper(response[i]), sub)

\* Lines 406-425: the branch main takes for a classifier response.
Dispatch(response) ==
    CASE InUpper("RAG", Cleaned(response))      -> "RAG"
      [] InUpper("INTERNET", Cleaned(response)) -> "INTERNET"
      [] OTHER                                  -> "DEFAULT"

\* Faulty variant: an unclear response is sent to the knowledge base.
BranchOfDefaultToRag(route) ==
    IF route = "INTERNET" THEN "internet" ELSE "rag"

\* The handler each branch of lines 406-425 calls.
BranchOf(route) ==
    IF route = "RAG" THEN "rag" ELSE "internet"

\* Faulty variant: the knowledge base is never found empty.
KbIsEmptyNever(stats) == FALSE

\* handle_rag_query, line 32.
KbIsEmpty(stats) == stats.total_documents = 0

\* Faulty variant: after the fallback of an empty knowledge base the handler
\* goes through handle_rag_query again.
ReturnFromInternetRetriesRag(caller) ==
    IF caller = "rag_empty" THEN "rag" ELSE "done"

\* Where the turn is once handle_internet_query returns to its caller: every
\* call site (lines 36, 89, 153, 160, 416, 425) is the last statement run.
ReturnFromInternet(caller) == "done"

\* process_uploaded_files, line 238: process_documents is a plain function
\* (rag_tool.py line 44), so awaiting the bool it returns raises TypeError.
AwaitOfProcessDocumentsRaises == TRUE

----------------------------------------------------------------------------
(* Initial state: the module has just been imported on a machine with no   *)
(* knowledge_base.pkl; PickleStorage.__init__ found no file.               *)

NoSearch == [called |-> FALSE]

NoTurn == [kind |-> "none"]

NoNetData == [held |-> FALSE]

\* No concurrent conversation is modelled outside SpecConc and SpecSession.
NoConversation == <<>>

\* InternetSearchTool.__init__, line 41: self.session = None.
NoSession == [held |-> FALSE]

Init ==
    /\ data = LoadOrInitialize(BlobAbsent)
    /\ blob = BlobAbsent
    /\ appended = <<>>
    /\ searchOut = NoSearch
    /\ pc = "boot"
    /\ turn = NoTurn
    /\ msgs = <<>>
    /\ netData = NoNetData
    /\ turnsDone = 0
    /\ conv = NoConversation
    /\ session = NoSession
    /\ clients = <<>>

----------------------------------------------------------------------------
(* Spec: the application.  One action per step of a handler between two    *)
(* points where it awaits a collaborator.                                  *)

Msg(kind) == [kind |-> kind, elements |-> {}, sources |-> <<>>]

RecordsOf(d) == [i \in 1..Len(d.ids) |-> RecordAt(d, i)]

NewTurn(kind, host) ==
    [kind            |-> kind,
     url             |-> host,        \* host of the URL of the query, if any
     response        |-> <<>>,        \* the classifier's response
     route           |-> "none",      \* WIKI, RAG, INTERNET or DEFAULT
     caller          |-> "none",      \* call site of handle_internet_query
     internetEntered |-> 0,           \* entries into handle_internet_query
     internetFailed  |-> FALSE,       \* handle_internet_query caught a failure
     extracted       |-> <<>>,        \* hosts handle_wikipedia_scrap extracted
     content         |-> [held |-> FALSE],  \* what extract_content returned to it
     summary         |-> [held |-> FALSE],  \* what search_and_summarize did
     listed          |-> <<>>,        \* sources listed under the response
     calls           |-> <<>>,        \* collaborator calls, in order
     faults          |-> {},          \* collaborator calls that failed
     escaped         |-> FALSE]       \* an exception left the handler

\* The trace of an ingestion: the batch given to process_documents, what
\* happened to each of its documents, and the size of the store before it.
IngestTurn(kind, files, outcomes, before) ==
    [kind |-> kind, files |-> files, outcomes |-> outcomes, before |-> before,
     escaped |-> FALSE]

Count(calls, op) == Cardinality({i \in 1..Len(calls) : calls[i] = op})

AnswerKinds == {"rag_answer", "internet_answer", "wiki_answer"}

Answered(ms) == \E i \in 1..Len(ms) : ms[i].kind \in AnswerKinds

\* The turn ends: it counts as successful when an answer was sent.
EndOfStep(nextPc, ms) ==
    /\ pc' = nextPc
    /\ msgs' = ms
    /\ turnsDone' = IF nextPc = "done" /\ Answered(ms) THEN turnsDone + 1 ELSE turnsDone

\* A call of handle_internet_query from `caller`, up to its first await:
\* the "searching" message is sent.
EnterInternet(t, caller, ms) ==
    /\ turn' = [t EXCEPT !.caller = caller, !.internetEntered = @ + 1]
    /\ EndOfStep("net_extract", Append(ms, Msg("searching")))
    /\ netData' = NoNetData

RECURSIVE TotalChunks(_)
TotalChunks(files) ==
    IF files = <<>> THEN 0 ELSE Len(Head(files).chunks) + TotalChunks(Tail(files))

\* The import of orchestrateur.py: RAGTool.__init__ loads the file and
\* ingests the docs/ files that are not in it.
Startup(outcomes) ==
    /\ pc = "boot"
    /\ LET loaded == LoadOrInitialize(blob)
           todo   == DocumentPaths(loaded)
           r      == ProcessDocuments(loaded, blob, todo, outcomes)
       IN  /\ Len(outcomes) = Len(todo)
           /\ Len(loaded.ids) + TotalChunks(todo) <= MaxRecords
           /\ data' = r.data
           /\ blob' = r.blob
           /\ appended' = RecordsOf(loaded) \o r.added
           /\ turn' = IngestTurn("startup", todo, outcomes, Len(loaded.ids))
    /\ pc' = "idle"
    /\ UNCHANGED <<searchOut, conv, session, clients, msgs, netData, turnsDone>>

\* main on a message with files, then process_uploaded_files: the files are
\* saved, process_documents runs, and the await of its result decides the
\* message sent.
Upload(files, outcomes) ==
    /\ pc = "idle"
    /\ Len(files) > 0
    /\ Len(outcomes) = Len(files)
    /\ Len(data.ids) + TotalChunks(files) <= MaxRecords
    /\ LET r == ProcessDocuments(data, blob, files, outcomes)
       IN  /\ data' = r.data
           /\ blob' = r.blob
           /\ appended' = appended \o r.added
           /\ msgs' = << Msg("upload_processing"),
                         IF ~AwaitOfProcessDocumentsRaises /\ r.success
                         THEN Msg("upload_success") ELSE Msg("upload_error") >>
    /\ turn' = IngestTurn("upload", files, outcomes, Len(data.ids))
    /\ pc' = "done"
    /\ netData' = NoNetData
    /\ UNCHANGED <<searchOut, conv, session, clients, turnsDone>>

\* The handler has returned: its locals are gone and the next message can be
\* handled.
HandlerReturns ==
    /\ pc = "done"
    /\ pc' = "idle"
    /\ turn' = NoTurn
    /\ msgs' = <<>>
    /\ netData' = NoNetData
    /\ UNCHANGED <<data, blob, appended, searchOut, turnsDone, conv, session, clients>>

\* main on a text message, lines 370-385: a Wikipedia URL goes to
\* handle_wikipedia_scrap, anything else to the classifying chat call.
ReceiveMessage(q) ==
    /\ pc = "idle"
    /\ turnsDone < MaxTurns
    /\ netData' = NoNetData
    /\ IF WikipediaUrls(q) # <<>>
       THEN /\ turn' = [NewTurn("query", q.url) EXCEPT !.route = "WIKI"]
            /\ EndOfStep("wiki_extract", <<Msg("wiki_extracting")>>)
       ELSE /\ turn' = NewTurn("query", q.url)
            /\ EndOfStep("classify", <<>>)
    /\ UNCHANGED <<data, blob, appended, searchOut, conv, session, clients>>

\* main, lines 397-425: the classifying chat call and the dispatch.  The call
\* is outside every try: its failure leaves main.
Classify(ok, response) ==
    /\ pc = "classify"
    /\ LET t == [turn EXCEPT !.calls = Append(@, "classify_chat")]
       IN  IF ~ok
           THEN /\ turn' = [t EXCEPT !.faults = @ \cup {"classify_chat"},
                                     !.escaped = TRUE]
                /\ EndOfStep("done", msgs)
                /\ UNCHANGED netData
           ELSE LET route == Dispatch(response)
                    t2    == [t EXCEPT !.response = response, !.route = route]
                    note  == CASE route = "RAG"      -> Msg("consult_kb")
                               [] route = "INTERNET" -> Msg("search_web")
                               [] OTHER              -> Msg("search_web_default")
                IN  IF BranchOf(route) = "rag"
                    THEN /\ turn' = t2
                         /\ EndOfStep("rag", Append(msgs, note))
                         /\ UNCHANGED netData
                    ELSE EnterInternet(t2, "main", Append(msgs, note))
    /\ UNCHANGED <<data, blob, appended, searchOut, conv, session, clients>>

\* handle_rag_query: the statistics, then either the fallback of an empty
\* knowledge base, or the search, query_with_context and the answer with its
\* source files; any exception sends the apology and falls back.
RagQuery(embedOk, qvec, chatOk) ==
    /\ pc = "rag"
    /\ LET stats == GetKnowledgeBaseStats(data)
           fallback(t) == EnterInternet(t, "rag_except", Append(msgs, Msg("kb_problem")))
       IN  IF KbIsEmpty(stats)
           THEN EnterInternet(turn, "rag_empty", Append(msgs, Msg("kb_empty")))
           ELSE LET t1 == [turn EXCEPT !.calls = Append(@, "embed_query")]
                IN  IF ~embedOk
                    THEN fallback([t1 EXCEPT !.faults = @ \cup {"embed_query"}])
                    ELSE LET found == SimilaritySearch(data, qvec, RagK)
                             t2 == [t1 EXCEPT !.calls = Append(@, "similarity_search")]
                             qwc == QueryWithContext(RagAttachmentsArg, RagChatHistoryArg)
                             t3 == [t2 EXCEPT !.calls = Append(@, "rag_chat")]
                         IN  IF found.status # "ok"
                             THEN fallback([t2 EXCEPT !.faults = @ \cup {"similarity_search"}])
                             ELSE IF qwc.raised
                             THEN fallback(t2)
                             ELSE IF ~chatOk
                             THEN fallback([t3 EXCEPT !.faults = @ \cup {"rag_chat"}])
                             ELSE /\ turn' = t3
                                  /\ EndOfStep("done", Append(msgs,
                                        [kind |-> "rag_answer",
                                         elements |-> SourceElements(found.results, KnownPaths),
                                         sources |-> <<>>]))
                                  /\ UNCHANGED netData
    /\ UNCHANGED <<data, blob, appended, searchOut, conv, session, clients>>

\* handle_internet_query, lines 98-102: search_and_extract.
InternetSearchAndExtract(so, web) ==
    /\ pc = "net_extract"
    /\ netData' = [held |-> TRUE,
                   search_data |-> SearchAndExtract(so, web, NumResults, NumExtract)]
    /\ turn' = [turn EXCEPT !.calls = Append(@, "web_search"),
                            !.faults = IF so.failed THEN @ \cup {"web_search"} ELSE @]
    /\ EndOfStep("net_summarize", msgs)
    /\ UNCHANGED <<data, blob, appended, searchOut, conv, session, clients>>

\* handle_internet_query, lines 105-124: search_and_summarize searches again
\* and either returns the error text or makes the summarising chat call; the
\* sources of search_data are listed under the response; any exception gives
\* the final message.
InternetSummarize(so, web, chatOk) ==
    /\ pc = "net_summarize"
    /\ LET sum     == SearchAndSummarize(so, web, NumResults, NumExtract, chatOk)
           listed  == PySlicePrefix(netData.search_data.search_results, SourcesListed)
           t1      == [turn EXCEPT !.calls = Append(@, "web_search"),
                          !.faults = IF so.failed THEN @ \cup {"web_search"} ELSE @,
                          !.summary = [held |-> TRUE, failed |-> so.failed,
                                       found |-> sum.data.search_results,
                                       chat_calls |-> sum.chat_calls,
                                       context |-> sum.context,
                                       returned |-> sum.returned],
                          !.listed = IF sum.returned = "raised" THEN <<>> ELSE listed]
           t2      == [t1 EXCEPT !.calls = Append(@, "summarize_chat")]
           after   == ReturnFromInternet(turn.caller)
       IN  IF sum.returned = "error_text"
           THEN /\ turn' = t1
                /\ EndOfStep(after, Append(msgs,
                      [kind |-> "internet_no_results", elements |-> {},
                       sources |-> listed]))
           ELSE IF sum.returned = "raised"
           THEN /\ turn' = [t2 EXCEPT !.faults = @ \cup {"summarize_chat"},
                                      !.internetFailed = TRUE]
                /\ EndOfStep(after, Append(msgs, Msg("internet_failed")))
           ELSE /\ turn' = t2
                /\ EndOfStep(after, Append(msgs,
                      [kind |-> "internet_answer", elements |-> {},
                       sources |-> listed]))
    /\ UNCHANGED <<data, blob, appended, searchOut, netData, conv, session, clients>>

\* handle_wikipedia_scrap, lines 133-135 and 149-153: the extraction and the
\* test of the extracted content.
WikiExtract(eo) ==
    /\ pc = "wiki_extract"
    /\ LET content == ExtractContent(eo, MaxChars)
           t == [turn EXCEPT !.calls = Append(@, "wiki_extract"),
                             !.extracted = Append(@, turn.url),
                             !.content = [held |-> TRUE, value |-> content],
                             !.faults = IF eo.failed THEN @ \cup {"wiki_extract"} ELSE @]
       IN  IF ContentUsable(content)
           THEN /\ turn' = t
                /\ EndOfStep("wiki_chat", msgs)
                /\ UNCHANGED netData
           ELSE EnterInternet(t, "wiki_short", Append(msgs, Msg("wiki_no_content")))
    /\ UNCHANGED <<data, blob, appended, searchOut, conv, session, clients>>

\* handle_wikipedia_scrap, lines 143-148 and 155-160: the grounded chat call.
WikiChat(chatOk) ==
    /\ pc = "wiki_chat"
    /\ LET t == [turn EXCEPT !.calls = Append(@, "wiki_chat")]
       IN  IF chatOk
           THEN /\ turn' = t
                /\ EndOfStep("done", Append(msgs, Msg("wiki_answer")))
                /\ UNCHANGED netData
           ELSE EnterInternet([t EXCEPT !.faults = @ \cup {"wiki_chat"}],
                              "wiki_except", Append(msgs, Msg("wiki_failed")))
    /\ UNCHANGED <<data, blob, appended, searchOut, conv, session, clients>>

QueryEmbeddings == { <<1, 0>>, <<-1, 1>> }

Next ==
    \/ \E outcomes \in SeqsUpTo(DocOutcomes, Len(DocsFiles)) : Startup(outcomes)
    \/ \E files \in SeqsUpTo(UploadableFiles, 2) :
           \E outcomes \in [1..Len(files) -> DocOutcomes] : Upload(files, outcomes)
    \/ HandlerReturns
    \/ \E q \in Queries : ReceiveMessage(q)
    \/ \E ok \in BOOLEAN, response \in SampleResponses : Classify(ok, response)
    \/ \E embedOk \in BOOLEAN, qvec \in QueryEmbeddings, chatOk \in BOOLEAN :
           RagQuery(embedOk, qvec, chatOk)
    \/ \E so \in SearchOutcomes, web \in Webs : InternetSearchAndExtract(so, web)
    \/ \E so \in SearchOutcomes, web \in Webs, chatOk \in BOOLEAN :
           InternetSummarize(so, web, chatOk)
    \/ \E eo \in ExtractOutcomes : WikiExtract(eo)
    \/ \E chatOk \in BOOLEAN : WikiChat(chatOk)

Spec == Init /\ [][Next]_vars

----------------------------------------------------------------------------
(* SpecStore: the storage API called directly.                             *)

\* Records a caller may pass to store_vectors.  The first two embeddings are
\* parallel (equal cosine similarity to every query), the third record reuses
\* the id of the first, the fourth has an embedding of another dimension.
SampleRecords ==
    { [id |-> <<"a", 0>>, document |-> "c1", embedding |-> <<1, 0>>,
       metadata |-> Meta("a.pdf", "docs/a.pdf", "a")],
      [id |-> <<"a", 1>>, document |-> "c2", embedding |-> <<2, 0>>,
       metadata |-> Meta("a.pdf", "docs/a.pdf", "a")],
      [id |-> <<"a", 0>>, document |-> "c3", embedding |-> <<0, 1>>,
       metadata |-> Meta("a.pdf", "temp_uploads/a.pdf", "a")],
      [id |-> <<"b", 0>>, document |-> "c4", embedding |-> <<1, 1, 0>>,
       metadata |-> Meta("b.docx", "docs/b.docx", "b")] }

SampleQueries == { <<1, 0>>, <<1, 1>>, <<-1, 1>>, <<0, 0>>, <<1, 0, 0>> }

SampleKs == (0 - 2) .. MaxK

\* storage.store_vectors(ids, embeddings, metadatas, documents)
SV_Store(batch, wr) ==
    /\ Len(data.ids) + Len(batch) <= MaxRecords
    /\ LET r == StoreBatch(data, blob, batch, wr)
       IN  /\ data' = r.data
           /\ blob' = r.blob
    /\ appended' = appended \o batch
    /\ searchOut' = NoSearch
    /\ UNCHANGED <<turnVars, conv, session, clients>>

\* rag_tool.clear_knowledge_base()
SV_Clear(wr) ==
    /\ LET r == ClearKnowledgeBase(data, blob, wr)
       IN  /\ data' = r.data
           /\ blob' = r.blob
    /\ appended' = <<>>
    /\ searchOut' = NoSearch
    /\ UNCHANGED <<turnVars, conv, session, clients>>

\* storage.similarity_search(query_vector, k)
SV_Search(q, k) ==
    /\ searchOut' = [called |-> TRUE, q |-> q, k |-> k,
                     out |-> SimilaritySearch(data, q, k)]
    /\ UNCHANGED <<data, blob, appended>>
    /\ UNCHANGED <<turnVars, conv, session, clients>>

NextStore ==
    \/ \E batch \in SeqsUpTo(SampleRecords, MaxBatch), wr \in WriteOutcomes :
           SV_Store(batch, wr)
    \/ \E wr \in WriteOutcomes : SV_Clear(wr)

SpecStore == Init /\ [][NextStore]_vars

----------------------------------------------------------------------------
(* SpecSearch: similarity_search as a function of the store content, the   *)
(* query vector and k.  The store starts with any records put there by one *)
(* successful store_vectors call.                                          *)

InitSearch ==
    /\ \E recs \in SeqsUpTo(SampleRecords, MaxRecords) :
          LET r == StoreBatch(EmptyData, BlobAbsent, recs, "ok")
          IN  /\ data = r.data
              /\ blob = r.blob
              /\ appended = recs
    /\ searchOut = NoSearch
    /\ pc = "boot"
    /\ turn = NoTurn
    /\ msgs = <<>>
    /\ netData = NoNetData
    /\ turnsDone = 0
    /\ conv = NoConversation
    /\ session = NoSession
    /\ clients = <<>>

NextSearch == \E q \in SampleQueries, k \in SampleKs : SV_Search(q, k)

SpecSearch == InitSearch /\ [][NextSearch]_vars

----------------------------------------------------------------------------
(* Claims about the store.                                                 *)

\* C1: after any sequence of store_vectors and clear_knowledge_base calls the
\* four collections have the same length, and index i of each holds the
\* fields of the i-th record appended.
C1_Alignment ==
    /\ Len(data.ids) = Len(appended)
    /\ Len(data.documents) = Len(appended)
    /\ Len(data.embeddings) = Len(appended)
    /\ Len(data.metadatas) = Len(appended)
    /\ \A i \in 1..Len(appended) : RecordAt(data, i) = appended[i]

\* Two store_vectors calls have appended three records, the second of them
\* failing while it wrote the file.
C1_Witness ==
    /\ Len(appended) = 3
    /\ blob = BlobCorrupt

SearchDone == searchOut.called /\ searchOut.out.status = "ok"

TopIdx == {searchOut.out.top[j].idx : j \in 1..Len(searchOut.out.top)}

SimOf(i) == CosineSimilarity(searchOut.q, data.embeddings[i])

\* C9: similarity_search returns records by non-increasing similarity
\* (non-decreasing distance), each returned record described by its own
\* document and metadata; no record left out ranks above a returned one; and
\* with k >= the number of records every record is returned.
C9_SearchRanking ==
    SearchDone =>
        LET top == searchOut.out.top
            res == searchOut.out.results
            n   == Len(data.embeddings)
        IN  /\ Len(res) = Len(top)
            /\ \A j \in 1..Len(top) :
                  /\ top[j].idx \in 1..n
                  /\ top[j].sim = SimOf(top[j].idx)
                  /\ res[j].document = data.documents[top[j].idx]
                  /\ res[j].metadata = data.metadatas[top[j].idx]
                  /\ res[j].distance = [oneMinus |-> SimOf(top[j].idx)]
            /\ \A i, j \in 1..Len(top) : i < j =>
                  /\ top[i].idx # top[j].idx
                  /\ SimGE(top[i].sim, top[j].sim)
            /\ \A i \in TopIdx, j \in (1..n) \ TopIdx : SimGE(SimOf(i), SimOf(j))
            /\ searchOut.k >= n => TopIdx = 1..n

\* A search that had to reorder and to cut: the best record is not the first
\* stored, and a record of strictly lower similarity was left out.
C9_Witness ==
    /\ SearchDone
    /\ Len(searchOut.out.top) >= 2
    /\ searchOut.out.top[1].idx > 1
    /\ \E j \in (1..Len(data.embeddings)) \ TopIdx :
          ~SimGE(SimOf(j), searchOut.out.top[Len(searchOut.out.top)].sim)

\* C10: of two records of equal similarity the one inserted earlier is ranked
\* first, and it is the one returned when k cuts between them.
C10_TiesByInsertionOrder ==
    SearchDone =>
        LET top == searchOut.out.top
            n   == Len(data.embeddings)
        IN  /\ \A i, j \in 1..Len(top) :
                  (SimEQ(top[i].sim, top[j].sim) /\ top[i].idx < top[j].idx) => i < j
            /\ \A a, b \in 1..n :
                  (a < b /\ SimEQ(SimOf(a), SimOf(b)) /\ b \in TopIdx) => a \in TopIdx

\* k cut between two records of equal similarity, and two tied records were
\* both returned.
C10_Witness ==
    /\ SearchDone
    /\ \E a \in TopIdx, b \in (1..Len(data.embeddings)) \ TopIdx :
          a < b /\ SimEQ(SimOf(a), SimOf(b))
    /\ \E a, b \in TopIdx : a < b /\ SimEQ(SimOf(a), SimOf(b))

----------------------------------------------------------------------------
(* Claims about the message handler.                                       *)

InQueryTurn == turn.kind = "query"

LastMsg == msgs[Len(msgs)]

KbEmpty == Len(data.documents) = 0

\* The classifying chat call was made and answered.
Classified ==
    /\ InQueryTurn
    /\ Count(turn.calls, "classify_chat") = 1
    /\ "classify_chat" \notin turn.faults

\* C2: a turn routed to RAG over a non-empty knowledge base, with no failing
\* collaborator, is answered by the retrieval branch and does not enter the
\* INTERNET branch.
C2_RagAnsweredFromKnowledgeBase ==
    (Classified /\ turn.response = <<"RAG">> /\ ~KbEmpty /\ turn.faults = {}
       /\ pc = "done")
        => /\ turn.internetEntered = 0
           /\ Count(turn.calls, "rag_chat") = 1
           /\ LastMsg.kind = "rag_answer"

\* C3: a turn routed to RAG over an empty store enters the INTERNET branch,
\* makes no similarity search and no retrieval-grounded chat call, and no
\* message of the turn carries knowledge-base source files.
C3_EmptyKbFallsBackToInternet ==
    (InQueryTurn /\ turn.route = "RAG" /\ KbEmpty /\ pc # "rag")
        => /\ turn.internetEntered = 1
           /\ turn.caller = "rag_empty"
           /\ Count(turn.calls, "embed_query") = 0
           /\ Count(turn.calls, "similarity_search") = 0
           /\ Count(turn.calls, "rag_chat") = 0
           /\ \A i \in 1..Len(msgs) :
                  msgs[i].elements = {} /\ msgs[i].kind # "rag_answer"

\* A RAG turn over an empty store has ended with an Internet answer.
C3_Witness ==
    /\ InQueryTurn /\ turn.route = "RAG" /\ KbEmpty /\ pc = "done"
    /\ LastMsg.kind = "internet_answer"

\* The host is wikipedia.org or one of its subdomains.
InAllowedDomain(host) ==
    \/ host = <<"wikipedia", ".", "org">>
    \/ /\ Len(host) > 4
       /\ SubSeq(host, Len(host) - 3, Len(host)) = <<".", "wikipedia", ".", "org">>

\* C4: page extraction is invoked only for a URL on the allowed domain; a
\* request whose URL is on another host enters the INTERNET branch and not
\* the extraction branch.
C4_ExtractionOnlyOnAllowedHost ==
    InQueryTurn =>
        /\ \A i \in 1..Len(turn.extracted) : InAllowedDomain(turn.extracted[i])
        /\ (pc = "done" /\ turn.url # NoHost /\ ~InAllowedDomain(turn.url)
              /\ ~turn.escaped)
             => (turn.internetEntered >= 1 /\ turn.extracted = <<>>)

\* C5: handle_internet_query is entered at most once in a turn, and a failure
\* inside it ends the turn with the "could not complete" message as the last
\* message, with no answer and no further entry.
C5_InternetEnteredAtMostOnce ==
    InQueryTurn =>
        /\ turn.internetEntered <= 1
        /\ turn.internetFailed =>
              /\ pc = "done"
              /\ turn.internetEntered = 1
              /\ LastMsg.kind = "internet_failed"
              /\ ~Answered(msgs)

\* A fallback from the RAG or the Wikipedia branch failed inside the INTERNET
\* branch.
C5_Witness ==
    /\ InQueryTurn /\ pc = "done"
    /\ turn.caller \in {"rag_empty", "rag_except", "wiki_short", "wiki_except"}
    /\ turn.internetFailed

\* C6: every turn ends with a message sent to the user and no exception
\* leaving the handler, whichever collaborator call fails.
C6_EveryTurnEndsWithMessage ==
    pc = "done" => (Len(msgs) >= 1 /\ ~turn.escaped)

\* The tool names of a routing decision.
ToolNames == {"RAG", "INTERNET", "SCRAPING", "LLM"}

NamesNoTool(response) ==
    \A i \in 1..Len(Cleaned(response)) : Upper(Cleaned(response)[i]) \notin ToolNames

\* C7 as stated: a classifier response that names no recognised tool is
\* answered by one direct chat call, with no retrieval, web search or page
\* extraction in the turn.
C7_UnrecognisedGoesToLlm ==
    (Classified /\ NamesNoTool(turn.response) /\ pc = "done")
        => /\ Count(turn.calls, "direct_chat") = 1
           /\ turn.internetEntered = 0
           /\ Count(turn.calls, "web_search") = 0
           /\ Count(turn.calls, "similarity_search") = 0
           /\ turn.extracted = <<>>

ContainsNeither(response) ==
    \A i \in 1..Len(response) :
        IsThinkTag(response[i])
        \/ /\ ~HasSubstring(Upper(response[i]), "RAG")
           /\ ~HasSubstring(Upper(response[i]), "INTERNET")

\* C7 as amended: a classifier response that contains neither "RAG" nor
\* "INTERNET" is dispatched to the INTERNET branch: handle_internet_query is
\* entered once, from main, with the notice of the default branch, and the
\* turn makes no direct chat call, no knowledge-base retrieval and no page
\* extraction by handle_wikipedia_scrap.
C7_UnclearGoesToInternet ==
    (Classified /\ ContainsNeither(turn.response))
        => /\ turn.route = "DEFAULT"
           /\ turn.internetEntered = 1
           /\ turn.caller = "main"
           /\ msgs[1].kind = "search_web_default"
           /\ Count(turn.calls, "direct_chat") = 0
           /\ Count(turn.calls, "embed_query") = 0
           /\ Count(turn.calls, "similarity_search") = 0
           /\ Count(turn.calls, "rag_chat") = 0
           /\ turn.extracted = <<>>

\* The response "LLM" was answered from the Internet.
C7_Witness ==
    /\ Classified /\ turn.response = <<"LLM">> /\ pc = "done"
    /\ LastMsg.kind = "internet_answer"

\* The history turns the handler passes to a chat call: the chat_history
\* argument of query_with_context, the only place where past turns can enter
\* a chat call.
HistoryPassed ==
    IF RagChatHistoryArg.given THEN RagChatHistoryArg.value ELSE <<>>

\* C8: the rolling history holds the user and assistant turns of the most
\* recent successful turns, at most 10 of them: two after one successful
\* turn, four after two, ten from the fifth on.
C8_RollingHistoryHoldsRecentTurns ==
    Len(HistoryPassed) = Min(10, 2 * turnsDone)

----------------------------------------------------------------------------
(* Claims about the search, continued.                                     *)

\* C11: similarity_search with k <= 0, zero or negative, returns an empty
\* list whatever the store holds.
C11_NonPositiveKReturnsEmpty ==
    (SearchDone /\ searchOut.k <= 0) => searchOut.out.results = <<>>

\* The query of the last direct search has another dimension than some
\* stored embedding.
DimensionDiffers ==
    /\ searchOut.called
    /\ \E i \in 1..Len(data.embeddings) : Len(data.embeddings[i]) # Len(searchOut.q)

\* C12: similarity_search with a query vector whose dimension differs from
\* that of the stored embeddings fails (the ValueError of np.dot), returns no
\* ranked result, and leaves the four collections and the file as they were.
C12_DimensionMismatchFails ==
    DimensionDiffers =>
        /\ searchOut.out.status = "error"
        /\ searchOut.out.top = <<>>
        /\ searchOut.out.results = <<>>
        /\ RecordsOf(data) = appended
        /\ Len(data.ids) = Len(appended)
        /\ blob = StoreBatch(EmptyData, BlobAbsent, appended, "ok").blob

\* A query of dimension 3 was run against two stored embeddings of dimension 2.
C12_Witness ==
    /\ searchOut.called
    /\ Len(searchOut.q) = 3
    /\ Len(data.embeddings) = 2
    /\ \A i \in 1..Len(data.embeddings) : Len(data.embeddings[i]) = 2
    /\ searchOut.out.status = "error"

----------------------------------------------------------------------------
(* Claims about the store, continued.                                      *)

IsPrefix(s, t) == Len(s) <= Len(t) /\ SubSeq(t, 1, Len(s)) = s

\* C13: a store_vectors call with a batch of n records grows each of the four
\* collections by exactly n, whether or not the ids of the batch are already
\* in the store: the records of the batch are appended as they are, and the
\* earlier records stay, unchanged, as a prefix.  (Two calls with batches of
\* sizes a and b therefore grow the store by a + b.)
C13_AppendNeverMerges ==
    [][ Len(appended') >= Len(appended) =>
          LET n == Len(appended') - Len(appended)
          IN  /\ Len(data'.ids) = Len(data.ids) + n
              /\ Len(data'.documents) = Len(data.documents) + n
              /\ Len(data'.embeddings) = Len(data.embeddings) + n
              /\ Len(data'.metadatas) = Len(data.metadatas) + n
              /\ IsPrefix(data.ids, data'.ids)
              /\ IsPrefix(data.documents, data'.documents)
              /\ IsPrefix(data.embeddings, data'.embeddings)
              /\ IsPrefix(data.metadatas, data'.metadatas)
              /\ \A i \in (Len(appended) + 1)..Len(appended') :
                    RecordAt(data', i) = appended'[i] ]_vars

\* After at least two calls the store holds three records, two of which have
\* the same id and different documents.
C13_Witness ==
    /\ Len(data.ids) = 3
    /\ Len(data.documents) = 3
    /\ \E i, j \in 1..3 :
          i < j /\ data.ids[i] = data.ids[j] /\ data.documents[i] # data.documents[j]

\* A step of clear_knowledge_base whose write of the file failed.
ClearFailed == \E wr \in WriteOutcomes \ {"ok"} : SV_Clear(wr)

\* C14: clear_knowledge_base is all-or-nothing: when writing the empty store
\* fails, the collections in memory still hold the records they held and so
\* does the file (read as _load_or_initialize reads it).
C14_ClearAllOrNothing ==
    [][ ClearFailed =>
          /\ data' = data
          /\ LoadOrInitialize(blob') = LoadOrInitialize(blob) ]_vars

----------------------------------------------------------------------------
(* Claims about the message handler, continued.                            *)

\* handle_wikipedia_scrap has received the result of extract_content.
WikiExtracted == InQueryTurn /\ turn.route = "WIKI" /\ turn.content.held

WikiChars == turn.content.value.content_chars

\* The grounded chat call of handle_wikipedia_scrap is being made or was made.
WikiChatCalled == pc = "wiki_chat" \/ Count(turn.calls, "wiki_chat") = 1

\* The extraction was treated as a failure: the fallback to INTERNET, with no
\* grounded chat call.
WikiFellBack ==
    /\ pc # "wiki_chat"
    /\ Count(turn.calls, "wiki_chat") = 0
    /\ turn.internetEntered = 1
    /\ turn.caller = "wiki_short"

\* C15 as stated: the grounded chat call is made if and only if the extracted
\* content has at least 50 characters; a shorter content falls back.
C15_ChatIffAtLeastFiftyChars ==
    WikiExtracted =>
        IF WikiChars >= MinContentChars THEN WikiChatCalled ELSE WikiFellBack

\* C15 as amended: the grounded chat call is made if and only if the content
\* is longer than 50 characters; a content of 50 characters or fewer falls
\* back to INTERNET with no grounded chat call.
C15_ChatIffMoreThanFiftyChars ==
    WikiExtracted =>
        IF WikiChars > MinContentChars THEN WikiChatCalled ELSE WikiFellBack

\* A page of exactly 50 characters was extracted and the turn was answered by
\* the INTERNET branch.
C15_Witness ==
    /\ WikiExtracted /\ pc = "done"
    /\ ~turn.content.value.title_error
    /\ WikiChars = MinContentChars
    /\ WikiFellBack
    /\ LastMsg.kind = "internet_answer"

\* C16: when extract_content fails it returns a result of length 0, and
\* handle_wikipedia_scrap treats it as an extraction failure: it falls back to
\* INTERNET and makes no chat call grounded on the error description.
C16_FailedExtractionFallsBack ==
    (WikiExtracted /\ "wiki_extract" \in turn.faults) =>
        /\ turn.content.value.length = 0
        /\ WikiFellBack

----------------------------------------------------------------------------
(* Claims about ingestion.                                                 *)

\* process_documents has just run on the batch recorded in turn.
Ingested == turn.kind \in {"startup", "upload"}

\* The documents of the batch that did not fail.
OkDocs == {i \in 1..Len(turn.files) : turn.outcomes[i] = "ok"}

\* The records held at positions p+1 .. p+n of the store.
RecordsFrom(p, n) == [j \in 1..n |-> RecordAt(data, p + j)]

\* C17: process_documents keeps processing after a document fails: the
\* chunks of every non-failing document of the batch are in the store after
\* the records held before, in the order of the batch, wherever the failing
\* documents are and however many they are.
C17_FailingDocumentsAreSkipped ==
    Ingested =>
        \E pos \in [OkDocs -> turn.before..Len(data.ids)] :
            /\ \A i \in OkDocs :
                  /\ pos[i] + Len(turn.files[i].chunks) <= Len(data.ids)
                  /\ RecordsFrom(pos[i], Len(turn.files[i].chunks))
                         = ChunkRecords(turn.files[i])
            /\ \A i, j \in OkDocs :
                  i < j => pos[i] + Len(turn.files[i].chunks) <= pos[j]

\* In a batch of two documents the first failed while it was embedded, and
\* the chunk of the second is the last record of the store.
C17_Witness ==
    /\ turn.kind = "upload"
    /\ Len(turn.files) = 2
    /\ turn.outcomes = <<"embed_fail", "ok">>
    /\ Len(data.ids) > turn.before
    /\ RecordAt(data, Len(data.ids)) = ChunkRecords(turn.files[2])[1]

\* C18: after any sequence of ingestions (the start-up ingestion of docs/ and
\* the uploads) no two records of the store have the same id.
C18_IdsUnique ==
    \A i, j \in 1..Len(data.ids) : i # j => data.ids[i] # data.ids[j]

\* C19: all embeddings held by the store have the dimension of the first one
\* inserted.
C19_OneDimension ==
    \A i \in 1..Len(data.embeddings) :
        Len(data.embeddings[i]) = Len(data.embeddings[1])

----------------------------------------------------------------------------
(* SpecConc: concurrent conversations.  The handlers are coroutines of one *)
(* event loop: a handler runs from an await that suspends it to the next,  *)
(* and the handlers of different conversations interleave at those points. *)

Conversations == {"c1", "c2"}

\* The statements of store_vectors: the four extends (lines 34-37) and the
\* write of the file (lines 40-41).
StoreStatements == <<"ids", "documents", "embeddings", "metadatas", "write">>

\* Faulty variant: store_vectors suspends after it extended the documents.
SuspendsAfterDocuments == {"documents"}

\* The statements of store_vectors after which the event loop can run another
\* handler: none, store_vectors is a plain function without await, called
\* from process_documents, a plain function too.
SuspensionPoints == {}

\* One statement of store_vectors.
ExecStatement(d, b, stmt, batch, wr) ==
    CASE stmt = "ids" ->
           [data |-> [d EXCEPT !.ids = @ \o IdsOf(batch)], blob |-> b]
      [] stmt = "documents" ->
           [data |-> [d EXCEPT !.documents = @ \o DocumentsOf(batch)], blob |-> b]
      [] stmt = "embeddings" ->
           [data |-> [d EXCEPT !.embeddings = @ \o EmbeddingsOf(batch)], blob |-> b]
      [] stmt = "metadatas" ->
           [data |-> [d EXCEPT !.metadatas = @ \o MetadatasOf(batch)], blob |-> b]
      [] stmt = "write" ->
           [data |-> d, blob |-> WriteBlob(b, d, wr)]

\* store_vectors run from statement i up to its end or to the next point
\* where it is suspended; next is the statement to resume at.
RECURSIVE RunStoreVectors(_, _, _, _, _)
RunStoreVectors(d, b, batch, wr, i) ==
    IF i > Len(StoreStatements)
    THEN [data |-> d, blob |-> b, next |-> i]
    ELSE LET r == ExecStatement(d, b, StoreStatements[i], batch, wr)
         IN  IF StoreStatements[i] \in SuspensionPoints
             THEN [data |-> r.data, blob |-> r.blob, next |-> i + 1]
             ELSE RunStoreVectors(r.data, r.blob, batch, wr, i + 1)

\* The loop of process_documents over the documents still to do (each a file
\* and the outcome of the write of its records), resumed at statement i of
\* the store_vectors call of the first of them.
RECURSIVE RunIngestion(_, _, _, _, _)
RunIngestion(d, b, todo, i, added) ==
    IF todo = <<>>
    THEN [data |-> d, blob |-> b, todo |-> todo, next |-> 1, added |-> added]
    ELSE LET batch == ChunkRecords(Head(todo).file)
             r     == RunStoreVectors(d, b, batch, Head(todo).wr, i)
             now   == IF i = 1 THEN added \o batch ELSE added
         IN  IF r.next <= Len(StoreStatements)
             THEN [data |-> r.data, blob |-> r.blob, todo |-> todo,
                   next |-> r.next, added |-> now]
             ELSE RunIngestion(r.data, r.blob, Tail(todo), 1, now)

Idle == [pc |-> "idle"]

\* What a search saw: the lengths of the four collections when it ran, and
\* what storage.similarity_search returned.
Observation(d, q, out) ==
    [pc |-> "idle", searched |-> TRUE, q |-> q,
     lens |-> <<Len(d.ids), Len(d.documents), Len(d.embeddings), Len(d.metadatas)>>,
     out |-> out]

\* The records of the ingestions the conversations have not finished.
RECURSIVE ChunksToDo(_)
ChunksToDo(todo) ==
    IF todo = <<>> THEN 0
    ELSE Len(Head(todo).file.chunks) + ChunksToDo(Tail(todo))

InFlight(c) == IF conv[c].pc = "ingest" THEN ChunksToDo(conv[c].todo) ELSE 0

RECURSIVE SumInFlight(_)
SumInFlight(cs) ==
    IF cs = {} THEN 0
    ELSE LET c == CHOOSE x \in cs : TRUE IN InFlight(c) + SumInFlight(cs \ {c})

\* The store is as some start-up ingestion left it; every conversation waits
\* for a message.
InitConc ==
    /\ \E outcomes \in [1..Len(DocsFiles) -> {"ok", "parse_fail"}] :
          LET r == ProcessDocuments(EmptyData, BlobAbsent, DocsFiles, outcomes)
          IN  /\ data = r.data
              /\ blob = r.blob
              /\ appended = r.added
    /\ searchOut = NoSearch
    /\ pc = "idle"
    /\ turn = NoTurn
    /\ msgs = <<>>
    /\ netData = NoNetData
    /\ turnsDone = 0
    /\ conv = [c \in Conversations |-> Idle]
    /\ session = NoSession
    /\ clients = <<>>

\* process_uploaded_files up to its first await (the message of line 169):
\* the files of the message are to be ingested.
ConvReceiveFiles(c, todo) ==
    /\ conv[c].pc = "idle"
    /\ Len(todo) > 0
    /\ Len(data.ids) + SumInFlight(Conversations) + ChunksToDo(todo) <= MaxRecords
    /\ conv' = [conv EXCEPT ![c] = [pc |-> "ingest", todo |-> todo, next |-> 1]]
    /\ UNCHANGED <<data, blob, appended, searchOut, turnVars, session, clients>>

\* process_uploaded_files from that await on: the files are saved and
\* process_documents runs until it returns or is suspended.
ConvIngest(c) ==
    /\ conv[c].pc = "ingest"
    /\ LET r == RunIngestion(data, blob, conv[c].todo, conv[c].next, <<>>)
       IN  /\ data' = r.data
           /\ blob' = r.blob
           /\ appended' = appended \o r.added
           /\ conv' = [conv EXCEPT ![c] =
                         IF r.todo = <<>> THEN Idle
                         ELSE [pc |-> "ingest", todo |-> r.todo, next |-> r.next]]
    /\ UNCHANGED <<searchOut, turnVars, session, clients>>

\* main up to the await of the classifying chat call, for a question the
\* classifier will send to the knowledge base.
ConvReceiveQuestion(c, q) ==
    /\ conv[c].pc = "idle"
    /\ conv' = [conv EXCEPT ![c] = [pc |-> "rag", q |-> q]]
    /\ UNCHANGED <<data, blob, appended, searchOut, turnVars, session, clients>>

\* handle_rag_query, lines 30-39: the statistics and rag_tool.similarity_search,
\* which embeds the query and searches without being suspended.
ConvRagSearch(c) ==
    /\ conv[c].pc = "rag"
    /\ conv' = [conv EXCEPT ![c] =
                  IF KbIsEmpty(GetKnowledgeBaseStats(data))
                  THEN Idle
                  ELSE Observation(data, conv[c].q,
                                   SimilaritySearch(data, conv[c].q, RagK))]
    /\ UNCHANGED <<data, blob, appended, searchOut, turnVars, session, clients>>

UploadsToDo ==
    {todo \in SeqsUpTo([file : UploadableFiles, wr : WriteOutcomes], 2) : todo # <<>>}

NextConc ==
    \/ \E c \in Conversations, todo \in UploadsToDo : ConvReceiveFiles(c, todo)
    \/ \E c \in Conversations : ConvIngest(c)
    \/ \E c \in Conversations, q \in QueryEmbeddings : ConvReceiveQuestion(c, q)
    \/ \E c \in Conversations : ConvRagSearch(c)

SpecConc == InitConc /\ [][NextConc]_vars

\* The search of conversation c has run on a store that was not empty.
Searched(c) == conv[c].pc = "idle" /\ "searched" \in DOMAIN conv[c]

\* C20: a search interleaved with the ingestions of other conversations never
\* sees a torn write: the four collections have one length when it runs, and
\* every result pairs the document of a record with the metadata and the
\* similarity of the embedding of that same record.
C20_SearchSeesNoTornWrite ==
    \A c \in Conversations :
        Searched(c) =>
            LET o == conv[c] IN
            /\ \A i, j \in 1..4 : o.lens[i] = o.lens[j]
            /\ o.out.status = "ok"
            /\ Len(o.out.results) = Len(o.out.top)
            /\ \A j \in 1..Len(o.out.top) :
                  LET rec == appended[o.out.top[j].idx]
                  IN  /\ o.out.results[j].document = rec.document
                      /\ o.out.results[j].metadata = rec.metadata
                      /\ o.out.top[j].sim = CosineSimilarity(o.q, rec.embedding)

\* A search ran between the moment another conversation's upload was received
\* and the moment it was ingested, and saw the store without its records.
C20_Witness ==
    \E c, u \in Conversations :
        /\ c # u
        /\ Searched(c)
        /\ conv[u].pc = "ingest"
        /\ conv[c].lens[1] = Len(data.ids)
        /\ Len(conv[c].out.results) >= 2

----------------------------------------------------------------------------
(* Claims about the INTERNET branch.                                       *)

\* search_and_summarize has run in the turn.
Summarized == InQueryTurn /\ turn.summary.held

\* C21: when the search yields no result, also because the request to the
\* search engine failed (which gives the empty list and no exception),
\* search_and_summarize makes no chat call and returns the error text.
C21_NoResultsNoChatCall ==
    Summarized =>
        /\ turn.summary.failed => turn.summary.found = <<>>
        /\ turn.summary.found = <<>> =>
              /\ turn.summary.chat_calls = 0
              /\ turn.summary.returned = "error_text"
              /\ Count(turn.calls, "summarize_chat") = 0
              /\ ~turn.internetFailed

\* The request of search_and_summarize to the search engine failed and the
\* turn ended with the error text as its response.
C21_Witness ==
    /\ Summarized /\ pc = "done"
    /\ turn.summary.failed
    /\ LastMsg.kind = "internet_no_results"

\* C22: search_and_extract extracts the first min(num_extract, number of
\* results) results in rank order, extracted_content[i] coming from
\* search_results[i] with search_rank i; search_and_summarize then makes one
\* chat call whose context lists them as Source 1..n in that order, each body
\* cut to at most 2000 characters.
C22_ExtractsFirstResultsInRankOrder ==
    /\ (netData.held /\ ~netData.search_data.error) =>
          LET sd == netData.search_data
          IN  /\ Len(sd.extracted_content) = Min(NumExtract, Len(sd.search_results))
              /\ \A i \in 1..Len(sd.extracted_content) :
                    /\ sd.extracted_content[i].url = sd.search_results[i]
                    /\ sd.extracted_content[i].search_rank = i
    /\ (Summarized /\ turn.summary.found # <<>>) =>
          LET sm == turn.summary
          IN  /\ sm.chat_calls = 1
              /\ Count(turn.calls, "summarize_chat") = 1
              /\ Len(sm.context) = Min(NumExtract, Len(sm.found))
              /\ \A i \in 1..Len(sm.context) :
                    /\ sm.context[i].source = i
                    /\ sm.context[i].url = sm.found[i]
                    /\ sm.context[i].body <= ContextChars

\* Four results were found, three were put in the context of the chat call,
\* and the body of one of them was cut to 2000 characters.
C22_Witness ==
    /\ Summarized /\ pc = "done"
    /\ Len(turn.summary.found) = 4
    /\ Len(turn.summary.context) = 3
    /\ turn.summary.chat_calls = 1
    /\ \E i \in 1..3 : turn.summary.context[i].body = ContextChars
    /\ LastMsg.kind = "internet_answer"

\* C29: in a turn of the INTERNET branch the search engine is queried once,
\* and the sources listed under the response are the first results of the
\* search the summary was made from; sources are listed only when the summary
\* was produced from results.
C29_ListedSourcesAreTheGroundingResults ==
    (Summarized /\ pc = "done") =>
        /\ Count(turn.calls, "web_search") = 1
        /\ turn.listed = PySlicePrefix(turn.summary.found, SourcesListed)
        /\ turn.listed # <<>> => turn.summary.returned = "response"

----------------------------------------------------------------------------
(* Claims about ingestion, continued.                                      *)

RECURSIVE ChunksOfDocs(_, _)
ChunksOfDocs(files, docs) ==
    IF docs = {} THEN 0
    ELSE LET i == CHOOSE x \in docs : TRUE
         IN  Len(files[i].chunks) + ChunksOfDocs(files, docs \ {i})

\* C26: a document process_documents does not count as processed contributes
\* no record: after the ingestion the store in memory holds, beyond what it
\* held before, only the records of the documents counted as processed, also
\* when a document failed in the write of store_vectors.
C26_UncountedDocumentsAddNothing ==
    Ingested =>
        Len(data.ids) = turn.before + ChunksOfDocs(turn.files, OkDocs)

\* The last message of an upload.
UploadReported(kind) ==
    turn.kind = "upload" /\ pc = "done" /\ LastMsg.kind = kind

\* C27: process_uploaded_files reports success if and only if the upload
\* added the records of at least one document to the knowledge base, and
\* when it reports a failure the store holds what it held before the upload.
C27_UploadReportMatchesStore ==
    (turn.kind = "upload" /\ pc = "done") =>
        /\ UploadReported("upload_success") <=> Len(data.ids) > turn.before
        /\ UploadReported("upload_error") => Len(data.ids) = turn.before

\* A step of store_vectors whose write of the file failed.
StoreFailed ==
    \E batch \in SeqsUpTo(SampleRecords, MaxBatch), wr \in WriteOutcomes \ {"ok"} :
        SV_Store(batch, wr)

\* C25: a store_vectors call that fails while it writes the file loses no
\* record written by an earlier successful call: what _load_or_initialize
\* reads from the file after the call starts with what it read before.
C25_FailedWriteKeepsPersistedRecords ==
    [][ StoreFailed =>
          IsPrefix(RecordsOf(LoadOrInitialize(blob)),
                   RecordsOf(LoadOrInitialize(blob'))) ]_vars

----------------------------------------------------------------------------
(* SpecIngest: ingestions and restarts.  The process is started, ingests    *)
(* docs/, receives uploads, and is stopped and started again; what          *)
(* survives a restart is the file.                                          *)

\* The process ends: its memory is gone.
Restart ==
    /\ pc = "idle"
    /\ pc' = "boot"
    /\ data' = EmptyData
    /\ appended' = <<>>
    /\ turn' = NoTurn
    /\ msgs' = <<>>
    /\ netData' = NoNetData
    /\ UNCHANGED <<blob, searchOut, turnsDone, conv, session, clients>>

NextIngest ==
    \/ \E outcomes \in SeqsUpTo(DocOutcomes, Len(DocsFiles)) : Startup(outcomes)
    \/ \E files \in SeqsUpTo(UploadableFiles, 2) :
           \E outcomes \in [1..Len(files) -> DocOutcomes] : Upload(files, outcomes)
    \/ HandlerReturns
    \/ Restart

SpecIngest == Init /\ [][NextIngest]_vars

\* The store holds records made from the file at this path.
HoldsChunksOf(d, path) ==
    \E j \in 1..Len(d.metadatas) : d.metadatas[j].file_path = path

\* C28: start-up ingestion never ingests again a docs/ file whose chunks are
\* already in the store, whatever was uploaded in between, so that a restart
\* with an unchanged docs/ directory leaves the number of records unchanged.
C28_StartupIngestsNoFileTwice ==
    pc = "boot" =>
        LET loaded == LoadOrInitialize(blob)
            todo   == DocumentPaths(loaded)
        IN  \A i \in 1..Len(todo) : ~HoldsChunksOf(loaded, todo[i].path)

----------------------------------------------------------------------------
(* SpecSources: the source attribution of handle_rag_query as a function   *)
(* of the retrieved records and of the files present on disk.              *)

\* handle_rag_query, lines 39 and 44-79: the search with k=5 and the file
\* elements made from its results.
RagSources(q, disk) ==
    /\ LET out == SimilaritySearch(data, q, RagK)
       IN  /\ out.status = "ok"
           /\ searchOut' = [called |-> TRUE, q |-> q, k |-> RagK, out |-> out,
                            disk |-> disk,
                            elements |-> SourceElements(out.results, disk)]
    /\ UNCHANGED <<data, blob, appended, turnVars, conv, session, clients>>

NextSources ==
    \E q \in SampleQueries, disk \in SUBSET KnownPaths : RagSources(q, disk)

SpecSources == InitSearch /\ [][NextSources]_vars

\* The (file_name, file_path) pairs of the retrieved records.
RetrievedPairs ==
    { [name |-> searchOut.out.results[j].metadata.file_name,
       path |-> searchOut.out.results[j].metadata.file_path] :
          j \in 1..Len(searchOut.out.results) }

-----------------------------------------------------------------------------
(* The HTTP session of the web search tool.  internet_search_tool is one   *)
(* object of the process (orchestrateur.py, line 15): every conversation's *)
(* requests and every conversation's on_chat_end use its session field.    *)

\* The HTTP clients the model lets the process create.
MaxClients == 3

\* The requests made through the session: search_duckduckgo and search_bing
\* (lines 64-70 and 115-120) and extract_content (lines 191-193).
RequestKinds == {"search", "extract"}

\* _get_session: a client is created and kept when none is held; the held
\* client is returned otherwise, whatever its state.
GetSession(s, cl) ==
    IF ~s.held
    THEN [session |-> [held |-> TRUE, client |-> Len(cl) + 1],
          clients |-> Append(cl, "open")]
    ELSE [session |-> s, clients |-> cl]

\* close, line 345: await self.session.aclose().
Aclose(cl, id) == [cl EXCEPT ![id] = "closed"]

\* Faulty variant: close keeps the reference to the client it closed.
ReleasedSessionStillHeld(s) == s

\* close, line 346: self.session = None.
ReleasedSession(s) == NoSession

\* session.get on a client: a closed client refuses the request, a client
\* closed while the request is in flight may or may not deliver the response
\* (survives), and an open client delivers what the network delivers.
GetSucceeds(cl, id, startedClosed, netOk, survives) ==
    /\ ~startedClosed
    /\ netOk
    /\ (cl[id] = "closed" => survives)

\* What the caller of the tool receives: the except branches turn a failed
\* request into an empty result list (lines 97-99 and 150-152) or into a page
\* without content (lines 235-242).
RequestResult(kind, ok) ==
    IF ok THEN "content"
    ELSE IF kind = "search" THEN "no_results" ELSE "could_not_extract"

\* A request of a conversation: _get_session, then the await on session.get
\* with the client _get_session returned in a local variable.
SessionRequest(c, kind) ==
    /\ conv[c].pc = "idle"
    /\ session.held \/ Len(clients) < MaxClients
    /\ LET g == GetSession(session, clients)
       IN  /\ session' = g.session
           /\ clients' = g.clients
           /\ conv' = [conv EXCEPT ![c] =
                  [pc |-> "get", kind |-> kind, client |-> g.session.client,
                   fresh |-> ~session.held,
                   started_closed |-> g.clients[g.session.client] = "closed"]]
    /\ UNCHANGED <<data, blob, appended, searchOut, turnVars>>

\* The await on session.get returns or raises, and the tool returns.
SessionResponse(c, netOk, survives) ==
    /\ conv[c].pc = "get"
    /\ LET ok == GetSucceeds(clients, conv[c].client, conv[c].started_closed,
                             netOk, survives)
       IN  conv' = [conv EXCEPT ![c] =
               [pc |-> "idle", requested |-> TRUE, kind |-> conv[c].kind,
                client |-> conv[c].client, fresh |-> conv[c].fresh,
                net_ok |-> netOk,
                result |-> RequestResult(conv[c].kind, ok)]]
    /\ UNCHANGED <<data, blob, appended, searchOut, turnVars, session, clients>>

\* on_chat_end of a conversation, lines 453-456: close() returns at once when
\* no session is held, and suspends on aclose() otherwise.
ChatEnd(c) ==
    /\ conv[c].pc = "idle"
    /\ IF session.held
       THEN /\ clients' = Aclose(clients, session.client)
            /\ conv' = [conv EXCEPT ![c] =
                   [pc |-> "closing", client |-> session.client]]
       ELSE /\ clients' = clients
            /\ conv' = [conv EXCEPT ![c] =
                   [pc |-> "idle", ended |-> TRUE, found |-> Absent]]
    /\ UNCHANGED <<data, blob, appended, searchOut, turnVars, session>>

\* aclose() has returned: close() drops the reference and on_chat_end ends.
ChatEndResume(c) ==
    /\ conv[c].pc = "closing"
    /\ session' = ReleasedSession(session)
    /\ conv' = [conv EXCEPT ![c] =
           [pc |-> "idle", ended |-> TRUE, found |-> Given(conv[c].client)]]
    /\ UNCHANGED <<data, blob, appended, searchOut, turnVars, clients>>

NextSession ==
    \/ \E c \in Conversations, kind \in RequestKinds : SessionRequest(c, kind)
    \/ \E c \in Conversations, netOk \in BOOLEAN, survives \in BOOLEAN :
          SessionResponse(c, netOk, survives)
    \/ \E c \in Conversations : ChatEnd(c)
    \/ \E c \in Conversations : ChatEndResume(c)

SpecSession == InitConc /\ [][NextSession]_vars

\* on_chat_end of conversation c returns in this step.
ChatEndReturns(c) ==
    \/ ChatEnd(c) /\ ~session.held
    \/ ChatEndResume(c)

C30_ChatEndDoesNotFailOtherRequests ==
    \A c \in Conversations :
        (conv[c].pc = "idle" /\ "requested" \in DOMAIN conv[c]
            /\ conv[c].net_ok) => conv[c].result = "content"

====
